---- MODULE Spec2Model ----
(***************************************************************************)
(* jasontitus/signup-manager: the assignment/vetting workflow engine with  *)
(* its audit ledger (backend/app/routers/auth.py, routers/members.py,      *)
(* services/audit.py, dependencies.py) and the secrets vault               *)
(* (backend/app/vault.py, vault.py).                                       *)
(*                                                                         *)
(* Storage model.  Every request has its own SQLAlchemy session            *)
(* (database.py: autocommit=False, autoflush=False) on one SQLite file.    *)
(* A SELECT reads the committed tables; rows it returns are kept in the    *)
(* session (loaded) until the session's next commit, which expires them.   *)
(* audit_service.log_action adds the audit row and calls db.commit(): the  *)
(* commit flushes the pending attribute changes of the session and the     *)
(* audit INSERT in one transaction.  The flush writes only the columns     *)
(* whose new value differs from the loaded one, and sets updated_at when   *)
(* it writes anything.  One action of the model is one such storage step.  *)
(***************************************************************************)
EXTENDS Integers, Sequences, FiniteSets, Bags, TLC

\* ---- bounds of the model ------------------------------------------------
MaxMembers == 2
MaxTime == 8
MaxAudit == 4
MaxNotes == 1

\* ---- program constants ---------------------------------------------------
STALE_ASSIGNMENT_DAYS == 7

PENDING == "PENDING"
ASSIGNED == "ASSIGNED"
VETTED == "VETTED"
REJECTED == "REJECTED"
MemberStatus == {PENDING, ASSIGNED, VETTED, REJECTED}

VETTER == "VETTER"
SUPER_ADMIN == "SUPER_ADMIN"

\* The users table (user CRUD is outside the engine): two vetters, one admin.
Vetters == {"v1", "v2"}
Admins == {"admin"}
Users == Vetters \cup Admins
role(u) == IF u \in Admins THEN SUPER_ADMIN ELSE VETTER

None == "none"
NoMember == 0
MemberIds == 1..MaxMembers
Procs == {"r1", "r2"}

\* the instants at which the clock is read: the start, exactly the staleness
\* threshold later, and the day after that
Instants == {t \in 0..MaxTime : t \in {0, STALE_ASSIGNMENT_DAYS, STALE_ASSIGNMENT_DAYS + 1}}

VARIABLES
    now,            \* datetime.utcnow(), in days
    members,        \* table members: id -> row
    audit_logs,     \* table audit_logs: bag of rows (user_id, member_id, action)
    pc,             \* position of each request handler
    req,            \* the request a handler is serving
    loaded,         \* rows held unexpired in the handler's session: id -> row
    stale_members,  \* reclaim_stale_assignments: members still to reclaim
    reclaimed_count,\* reclaim_stale_assignments: reclaimed so far
    next_member,    \* auto_assign_next_member: the selected row's id
    result,         \* what the handler returned
    snap,           \* history: the tables when the request arrived
    quiet,          \* history: no other writer has acted since it arrived
    vault_file,     \* the .vault file on disk
    unlocked,       \* VaultManager._unlocked
    secrets,        \* VaultManager._secrets
    sealed,         \* history: what create_vault sealed, and the file it wrote
    outcome,        \* the last call on the vault manager and what came of it
    settings,       \* config.settings: SECRET_KEY, ENCRYPTION_KEY, EMAIL_BLIND_INDEX_SALT
    cipher,         \* EncryptionService._cipher: the key of the Fernet cipher, or None
    pii             \* members.email and members.email_blind_index, by member id

vars == <<now, members, audit_logs, pc, req, loaded, stale_members,
          reclaimed_count, next_member, result, snap, quiet,
          vault_file, unlocked, secrets, sealed, outcome, settings, cipher, pii>>

vaultvars == <<vault_file, unlocked, secrets, sealed, outcome, settings, cipher>>
servicevars == <<settings, cipher>>
workflow == <<now, members, audit_logs, pc, req, loaded, stale_members,
              reclaimed_count, next_member, result, snap, quiet>>

dbvars == <<members, audit_logs>>
locals == <<loaded, stale_members, reclaimed_count, next_member>>

\* ---- helpers ---------------------------------------------------------------
Min(S) == CHOOSE x \in S : \A y \in S : x <= y
Max(S) == CHOOSE x \in S : \A y \in S : x >= y

NoRows == [i \in {} |-> None]
NoReq == [kind |-> "none", user |-> None, member |-> NoMember, status |-> None]
NoSnap == [members |-> NoRows, audit |-> EmptyBag, taken |-> FALSE]

\* responses: the body of a 2xx (a member id, a count, nothing), or an HTTP error
Ok(v) == [code |-> "ok", value |-> v]
Err(e) == [code |-> e, value |-> NoMember]
NoResult == [code |-> "none", value |-> NoMember]

AuditLog(user_id, member_id, action) ==
    [user_id |-> user_id, member_id |-> member_id, action |-> action]

AuditSize == BagCardinality(audit_logs)

\* (a ledger that writes every entry twice)
log_action_twice(logs, user_id, member_id, action) ==
    logs (+) SetToBag({AuditLog(user_id, member_id, action)})
         (+) SetToBag({AuditLog(user_id, member_id, action)})

\* AuditService.log_action: db.add(audit_entry) (the commit is in the caller's step)
log_action(logs, user_id, member_id, action) ==
    logs (+) SetToBag({AuditLog(user_id, member_id, action)})

\* Flush of one modified row: UPDATE members SET <changed columns>, updated_at
\* WHERE id = m.  old is the row as loaded, new the attributes assigned.
Flush(tbl, m, old, new) ==
    LET st == IF new.status # old.status THEN new.status ELSE tbl[m].status
        av == IF new.assigned_vetter_id # old.assigned_vetter_id
              THEN new.assigned_vetter_id ELSE tbl[m].assigned_vetter_id
        nt == IF new.notes # old.notes THEN new.notes ELSE tbl[m].notes
    IN  IF new = old THEN tbl
        ELSE [tbl EXCEPT ![m] = [status |-> st, assigned_vetter_id |-> av,
                                 notes |-> nt, created_at |-> tbl[m].created_at,
                                 updated_at |-> now]]

\* what the session keeps of a row (the workflow columns)
Row(tbl, m) == [status |-> tbl[m].status,
                assigned_vetter_id |-> tbl[m].assigned_vetter_id,
                notes |-> tbl[m].notes]

\* (a threshold that takes in the assignments exactly 7 days old)
IsStaleOrDue(row, t) ==
    /\ row.status = ASSIGNED
    /\ row.updated_at <= t - STALE_ASSIGNMENT_DAYS

\* Member.status == ASSIGNED, Member.updated_at < utcnow() - 7 days
IsStale(row, t) ==
    /\ row.status = ASSIGNED
    /\ row.updated_at < t - STALE_ASSIGNMENT_DAYS

StaleIds(tbl, t) == {m \in DOMAIN tbl : IsStale(tbl[m], t)}

\* ascending list of a set of ids (rows come back in rowid order)
RECURSIVE SortedSeq(_)
SortedSeq(S) == IF S = {} THEN <<>> ELSE <<Min(S)>> \o SortedSeq(S \ {Min(S)})

\* (a queue that also hands out the records somebody holds)
PendingOrAssignedIds(tbl) ==
    {m \in DOMAIN tbl : tbl[m].status \in {PENDING, ASSIGNED}}

\* Member.status == MemberStatus.PENDING
PendingIds(tbl) == {m \in DOMAIN tbl : tbl[m].status = PENDING}

\* ORDER BY created_at ASC, first(): the rows that can come first.  The query
\* names no second sort key, so any row of the earliest created_at may be it.
FirstPending(tbl) ==
    {m \in PendingIds(tbl) : \A k \in PendingIds(tbl) : tbl[m].created_at <= tbl[k].created_at}

\* (an access check that admits every vetter)
check_role_only(row, u) == role(u) \in {SUPER_ADMIN, VETTER}

\* dependencies.check_member_access
check_member_access(row, u) ==
    IF role(u) = SUPER_ADMIN THEN TRUE
    ELSE IF role(u) = VETTER THEN row.assigned_vetter_id = u
    ELSE FALSE

\* (a reclaim that resets the status and keeps the vetter)
ReclaimedKeepingVetter(old) == [old EXCEPT !.status = PENDING]

\* reclaim_stale_assignments: member.status = PENDING, member.assigned_vetter_id = None
Reclaimed(old) == [old EXCEPT !.status = PENDING, !.assigned_vetter_id = None]

\* auto_assign_next_member: next_member.assigned_vetter_id = vetter_id, status = ASSIGNED
Assigned(old, u) == [old EXCEPT !.status = ASSIGNED, !.assigned_vetter_id = u]

\* update_member_status: member.status = update.status
StatusSet(old, s) == [old EXCEPT !.status = s]

\* add_member_note: member.notes = notes + new note (notes are counted)
NoteAppended(old) == [old EXCEPT !.notes = @ + 1]

\* ---- bookkeeping of a step of handler p -----------------------------------------
\* the history after a step of p (keep: p goes on; wrote: it changed a table)
History(p, keep, wrote) ==
    /\ quiet' = [q \in Procs |-> IF q = p THEN keep /\ quiet[p]
                                 ELSE IF wrote THEN FALSE ELSE quiet[q]]
    /\ snap' = [q \in Procs |-> IF q = p THEN (IF keep THEN snap[p] ELSE NoSnap)
                                ELSE IF wrote THEN NoSnap ELSE snap[q]]

ClearLocals(p) ==
    /\ loaded' = [loaded EXCEPT ![p] = NoRows]
    /\ stale_members' = [stale_members EXCEPT ![p] = <<>>]
    /\ reclaimed_count' = [reclaimed_count EXCEPT ![p] = 0]
    /\ next_member' = [next_member EXCEPT ![p] = NoMember]

\* the handler goes on to its next storage step
Goto(p, label, wrote) ==
    /\ pc' = [pc EXCEPT ![p] = label]
    /\ History(p, TRUE, wrote)
    /\ UNCHANGED <<req, result>>

\* the handler is over, returning r or raising HTTP error r: the session is
\* closed and the response is all that is left of the request
Return(p, r, wrote) ==
    /\ pc' = [pc EXCEPT ![p] = "done"]
    /\ result' = [result EXCEPT ![p] = r]
    /\ req' = [req EXCEPT ![p] = NoReq]
    /\ ClearLocals(p)
    /\ History(p, FALSE, wrote)

\* ---- initial state: empty tables, no request in flight ----------------------
InitWorkflow ==
    /\ now = 0
    /\ members = NoRows
    /\ audit_logs = EmptyBag
    /\ pc = [p \in Procs |-> "idle"]
    /\ req = [p \in Procs |-> NoReq]
    /\ loaded = [p \in Procs |-> NoRows]
    /\ stale_members = [p \in Procs |-> <<>>]
    /\ reclaimed_count = [p \in Procs |-> 0]
    /\ next_member = [p \in Procs |-> NoMember]
    /\ result = [p \in Procs |-> NoResult]
    /\ snap = [p \in Procs |-> NoSnap]
    /\ quiet = [p \in Procs |-> FALSE]
    /\ pii = NoRows

\* ---- the vault (vault.py create, app/vault.py VaultManager) ------------------
VAULT_ITERATIONS == 600000
DEFAULT_ITERATIONS == 600000

Passwords == {"pw1", "pw2", "pw3"}
Salts == {"salt1", "salt2"}
\* secrets bundles: the JSON object the vault seals
Bundles == {"bundleA", "bundleB"}
NoSecrets == "{}"
Undecodable == "undecodable"

\* (a key that does not depend on the password)
derive_key_unsalted(password, salt, iterations) == <<"", salt, iterations>>

\* PBKDF2-HMAC-SHA256 of the password under salt and iteration count
derive_key(password, salt, iterations) == <<password, salt, iterations>>

\* Fernet(key).encrypt(plain): a token only the same key opens
encrypt(key, plain) == [key |-> key, plain |-> plain, intact |-> TRUE, text |-> TRUE]

\* Fernet(key).decrypt(token) succeeds (else InvalidToken)
decrypts(key, token) ==
    /\ token.text
    /\ token.intact
    /\ token.key = key

\* the file on disk: whether it exists, whether its content parses as JSON, and
\* the JSON object in it
NoFile == [exists |-> FALSE, wellformed |-> FALSE, json |-> [k \in {} |-> None]]

\* vault.py create_vault: the file written for a password and a bundle
create_vault(password, bundle, salt) ==
    [exists |-> TRUE,
     wellformed |-> TRUE,
     json |-> [salt |-> salt,
               iterations |-> VAULT_ITERATIONS,
               data |-> encrypt(derive_key(password, salt, VAULT_ITERATIONS), bundle)]]

NoCall == [op |-> "none", password |-> None, result |-> None]

\* the settings a bundle holds once parsed: vault_secrets of create_vault
Content(bundle) ==
    IF bundle = "bundleA"
    THEN [SECRET_KEY |-> "skA", ENCRYPTION_KEY |-> "ekA", EMAIL_BLIND_INDEX_SALT |-> "bsA"]
    ELSE IF bundle = "bundleB"
    THEN [SECRET_KEY |-> "skB", ENCRYPTION_KEY |-> "ekB", EMAIL_BLIND_INDEX_SALT |-> "bsB"]
    ELSE [k \in {} |-> ""]

\* Settings(): nothing supplied through the environment
NoSettings == [SECRET_KEY |-> "", ENCRYPTION_KEY |-> "", EMAIL_BLIND_INDEX_SALT |-> ""]

\* the secrets of a development .env file
EnvSettings == [SECRET_KEY |-> "skE", ENCRYPTION_KEY |-> "ekE", EMAIL_BLIND_INDEX_SALT |-> "bsE"]

\* VaultManager(): no secrets, locked
VaultManager ==
    /\ unlocked = FALSE
    /\ secrets = NoSecrets
    /\ outcome = NoCall

\* legacy mode: no vault file, the secrets come from the environment and
\* initialize_app has initialized the encryption service at startup
Init ==
    /\ InitWorkflow
    /\ VaultManager
    /\ vault_file = NoFile
    /\ sealed = [password |-> None, secrets |-> NoSecrets, file |-> NoFile]
    /\ settings = EnvSettings
    /\ cipher = EnvSettings.ENCRYPTION_KEY

\* vault mode: the file create_vault wrote is on disk
VaultInit ==
    /\ InitWorkflow
    /\ VaultManager
    /\ \E P \in Passwords, S \in Bundles, salt \in Salts :
         /\ vault_file = create_vault(P, S, salt)
         /\ sealed = [password |-> P, secrets |-> S, file |-> create_vault(P, S, salt)]
    /\ settings = NoSettings
    /\ cipher = None

\* what unlock(master_password) comes to on the file as it is:
\* "True", "False", or the exception that leaves the method
unlock_result(file, master_password) ==
    IF ~file.exists THEN "FileNotFoundError"
    ELSE IF ~file.wellformed THEN "JSONDecodeError"
    ELSE IF "salt" \notin DOMAIN file.json THEN "KeyError"
    ELSE IF file.json.salt = Undecodable THEN "binascii.Error"
    ELSE LET vault_data == file.json
             iterations == IF "iterations" \in DOMAIN vault_data
                           THEN vault_data.iterations ELSE DEFAULT_ITERATIONS
             key == derive_key(master_password, vault_data.salt, iterations)
         IN  IF "data" \in DOMAIN vault_data /\ decrypts(key, vault_data.data)
             THEN "True" ELSE "False"

\* VaultManager.unlock(master_password)
unlock ==
    \E master_password \in Passwords :
        LET r == unlock_result(vault_file, master_password)
        IN  /\ outcome' = [op |-> "unlock", password |-> master_password, result |-> r]
            /\ IF r = "True"
               THEN /\ secrets' = vault_file.json.data.plain
                    /\ unlocked' = TRUE
               ELSE UNCHANGED <<secrets, unlocked>>
            /\ UNCHANGED <<vault_file, sealed, servicevars, pii, workflow>>

\* VaultManager.secrets
read_secrets ==
    /\ outcome' = [op |-> "secrets", password |-> None,
                   result |-> IF ~unlocked THEN "Vault is locked" ELSE secrets]
    /\ UNCHANGED <<vault_file, unlocked, secrets, sealed, servicevars, pii, workflow>>

\* a JSON object without key k
Without(obj, k) == [x \in DOMAIN obj \ {k} |-> obj[x]]

\* the ways the file on disk can come to harm
Damaged(file) ==
    {NoFile,
     [file EXCEPT !.wellformed = FALSE, !.json = [k \in {} |-> None]],
     [file EXCEPT !.json = Without(@, "salt")],
     [file EXCEPT !.json.salt = Undecodable],
     [file EXCEPT !.json = Without(@, "iterations")],
     [file EXCEPT !.json = Without(@, "data")],
     [file EXCEPT !.json.data.text = FALSE],
     [file EXCEPT !.json.data.intact = FALSE]}

\* the file is removed, truncated or altered behind the manager's back
damage ==
    /\ vault_file = sealed.file
    /\ \E f \in Damaged(vault_file) : vault_file' = f
    /\ outcome' = NoCall
    /\ UNCHANGED <<unlocked, secrets, sealed, servicevars, pii, workflow>>

\* config.load_secrets_from_vault: the settings the bundle names are overwritten
load_secrets_from_vault(old, bundle) ==
    [k \in DOMAIN old |-> IF k \in DOMAIN Content(bundle) THEN Content(bundle)[k]
                          ELSE old[k]]

\* (an endpoint that asks the manager even when it is already unlocked)
unlock_status_unguarded(is_unlocked, r) ==
    IF r = "True" THEN "303" ELSE IF r = "False" THEN "401" ELSE "500"

\* the response status of POST /api/unlock: a redirect when already unlocked or
\* when the manager accepts the password, 401 when it refuses it, 500 when
\* reading the file raises
unlock_status(is_unlocked, r) ==
    IF is_unlocked THEN "303"
    ELSE IF r = "True" THEN "303"
    ELSE IF r = "False" THEN "401"
    ELSE "500"

\* POST /api/unlock (routers/unlock.py): nothing is done when the manager is
\* already unlocked; a success loads the settings, initializes the encryption
\* service and redirects
post_unlock ==
    \E password \in Passwords :
        LET r == unlock_result(vault_file, password)
            loaded_settings == load_secrets_from_vault(settings, vault_file.json.data.plain)
            status == unlock_status(unlocked, r)
        IN  /\ outcome' = [op |-> "post_unlock", password |-> password, result |-> status]
            /\ IF ~unlocked /\ r = "True"
               THEN /\ secrets' = vault_file.json.data.plain
                    /\ unlocked' = TRUE
                    /\ settings' = loaded_settings
                    /\ cipher' = loaded_settings.ENCRYPTION_KEY
               ELSE UNCHANGED <<secrets, unlocked, settings, cipher>>
            /\ UNCHANGED <<vault_file, sealed, pii, workflow>>

VaultNext ==
    \/ unlock
    \/ read_secrets
    \/ damage
    \/ post_unlock

VaultSpec == VaultInit /\ [][VaultNext]_vars

\* ---- environment -------------------------------------------------------------
Tick ==
    /\ \E t \in Instants : t > now /\ now' = t
    /\ quiet' = [q \in Procs |-> FALSE]
    /\ snap' = [q \in Procs |-> NoSnap]
    /\ UNCHANGED <<vaultvars, pii, dbvars, pc, req, locals, result>>

\* public.submit_application: INSERT of a PENDING row (Member(status=PENDING),
\* created_at = updated_at = utcnow(); the id is max(rowid)+1)
NewId == IF DOMAIN members = {} THEN 1 ELSE Max(DOMAIN members) + 1

submit_application ==
    /\ NewId <= MaxMembers
    /\ members' = [m \in DOMAIN members \cup {NewId} |->
                     IF m = NewId
                     THEN [status |-> PENDING, assigned_vetter_id |-> None,
                           notes |-> 0, created_at |-> now, updated_at |-> now]
                     ELSE members[m]]
    /\ quiet' = [q \in Procs |-> FALSE]
    /\ snap' = [q \in Procs |-> NoSnap]
    /\ UNCHANGED <<vaultvars, pii, now, audit_logs, pc, req, locals, result>>

\* ---- a request arrives (get_current_user, require_admin) ----------------------
\* the handler starts on request r with its first query, going to label
Begin(p, r, label) ==
    /\ pc[p] = "idle"
    /\ req' = [req EXCEPT ![p] = r]
    /\ pc' = [pc EXCEPT ![p] = label]
    /\ snap' = [snap EXCEPT ![p] = [members |-> members, audit |-> audit_logs,
                                    taken |-> TRUE]]
    /\ quiet' = [quiet EXCEPT ![p] = TRUE]
    /\ UNCHANGED <<vaultvars, pii, now, dbvars, result>>

\* the request is answered with HTTP error e before anything is written
Refuse(p, e) ==
    /\ pc[p] = "idle"
    /\ Return(p, Err(e), FALSE)
    /\ UNCHANGED <<vaultvars, pii, now, dbvars>>

\* the first query of a handler on the member of the request
LoadMember(p, r, label) ==
    /\ Begin(p, r, label)
    /\ loaded' = [loaded EXCEPT ![p] = [k \in {r.member} |-> Row(members, r.member)]]
    /\ UNCHANGED <<stale_members, reclaimed_count, next_member>>

\* ---- reclaim_stale_assignments -------------------------------------------------
\* where the caller goes on when reclaim_stale_assignments returns n
AfterReclaim(kind, n) ==
    IF kind = "reclaim" THEN "manual_log"
    ELSE IF n > 0 THEN "stale_check" ELSE "select"

\* the query of the stale members: the session's side of it
StaleQuery(p) ==
    LET S == StaleIds(members, now)
    IN  /\ stale_members' = [stale_members EXCEPT ![p] = SortedSeq(S)]
        /\ loaded' = [loaded EXCEPT ![p] = [m \in S |-> Row(members, m)]]
        /\ reclaimed_count' = [reclaimed_count EXCEPT ![p] = 0]
        /\ UNCHANGED next_member

\* (the loop over the stale members left out)
SkipReclaim(kind) == AfterReclaim(kind, 0)

\* for member in stale_members: the loop is entered if there is a stale member
AfterStaleQuery(kind) ==
    IF StaleIds(members, now) = {} THEN AfterReclaim(kind, 0) ELSE "reclaim"

\* POST /members/next-candidate
get_next_candidate(p) ==
    \E u \in Users :
        LET r == [kind |-> "next", user |-> u, member |-> NoMember, status |-> None]
        IN  IF role(u) # VETTER THEN Refuse(p, "forbidden_role")
            ELSE Begin(p, r, AfterStaleQuery("next")) /\ StaleQuery(p)

\* ---- POST /auth/login ---------------------------------------------------------------
\* the usernames a login names: those of the users table and one it does not hold
Unknown == "nobody"
Usernames == Users \cup {Unknown}

\* (a login that auto-assigns whatever the role)
assigns_on_login_any_role(u) == TRUE

\* if user.role == UserRole.VETTER
assigns_on_login(u) == role(u) = VETTER

\* login: username names the row looked up, verified is verify_password's
\* answer, is_active the row's flag
login(p) ==
    \E username \in Usernames, verified \in BOOLEAN, is_active \in BOOLEAN :
        LET r == [kind |-> "login", user |-> username, member |-> NoMember,
                  status |-> None]
        IN  IF username = Unknown \/ ~verified THEN Refuse(p, "401")
            ELSE IF ~is_active THEN Refuse(p, "403")
            ELSE IF assigns_on_login(username)
                 THEN Begin(p, r, AfterStaleQuery("login")) /\ StaleQuery(p)
            ELSE /\ pc[p] = "idle"
                 /\ Return(p, Ok(username), FALSE)
                 /\ UNCHANGED <<vaultvars, pii, now, dbvars>>

\* POST /members/reclaim-stale
reclaim_stale_assignments_endpoint(p) ==
    \E u \in Users :
        LET r == [kind |-> "reclaim", user |-> u, member |-> NoMember, status |-> None]
        IN  IF role(u) # SUPER_ADMIN THEN Refuse(p, "forbidden_role")
            ELSE Begin(p, r, AfterStaleQuery("reclaim")) /\ StaleQuery(p)

\* auto_assign_next_member called by update_member_status: its reclaim query
ReclaimQuery(p) ==
    /\ pc[p] = "reclaim_query"
    /\ StaleQuery(p)
    /\ Goto(p, AfterStaleQuery(req[p].kind), FALSE)
    /\ UNCHANGED <<vaultvars, pii, now, dbvars>>

\* member.assigned_vetter_id on a row the last commit expired: reload it
ReclaimRefresh(p) ==
    /\ pc[p] = "reclaim"
    /\ LET m == Head(stale_members[p])
       IN  /\ m \notin DOMAIN loaded[p]
           /\ IF m \in DOMAIN members
              THEN /\ loaded' = [loaded EXCEPT ![p] = [k \in {m} |-> Row(members, m)]]
                   /\ Goto(p, "reclaim", FALSE)
                   /\ UNCHANGED <<stale_members, reclaimed_count, next_member>>
              ELSE Return(p, Err("error"), FALSE)
    /\ UNCHANGED <<vaultvars, pii, now, dbvars>>

\* one turn of the loop: the row is reset and
\* log_action(None, member.id, "ASSIGNMENT_RECLAIMED") commits
ReclaimOne(p) ==
    /\ pc[p] = "reclaim"
    /\ LET m == Head(stale_members[p])
           n == reclaimed_count[p] + 1
       IN  /\ m \in DOMAIN loaded[p]
           /\ LET old == loaded[p][m]
                  new == Reclaimed(old)
              IN  IF new # old /\ m \notin DOMAIN members
                  THEN /\ Return(p, Err("error"), FALSE)
                       /\ UNCHANGED dbvars
                  ELSE /\ AuditSize < MaxAudit
                       /\ members' = IF new = old THEN members
                                     ELSE Flush(members, m, old, new)
                       /\ audit_logs' = log_action(audit_logs, None, m,
                                                   "ASSIGNMENT_RECLAIMED")
                       /\ loaded' = [loaded EXCEPT ![p] = NoRows]
                       /\ stale_members' = [stale_members EXCEPT ![p] = Tail(@)]
                       /\ reclaimed_count' = [reclaimed_count EXCEPT ![p] = n]
                       /\ Goto(p, IF Tail(stale_members[p]) = <<>>
                                  THEN AfterReclaim(req[p].kind, n) ELSE "reclaim",
                               TRUE)
                       /\ UNCHANGED next_member
    /\ UNCHANGED <<vaultvars, pii, now>>

\* reclaim_stale_assignments_endpoint: log_action(admin, None, MANUAL_STALE_RECLAIM)
\* commits and the count is returned
ManualLog(p) ==
    /\ pc[p] = "manual_log"
    /\ AuditSize < MaxAudit
    /\ audit_logs' = log_action(audit_logs, req[p].user, NoMember,
                                "MANUAL_STALE_RECLAIM")
    /\ Return(p, Ok(reclaimed_count[p]), TRUE)
    /\ UNCHANGED <<vaultvars, pii, now, members>>

\* ---- auto_assign_next_member -----------------------------------------------------
\* what the handler returns when auto_assign_next_member is over
Outcome(p, m) ==
    IF req[p].kind = "status" THEN req[p].member
    ELSE IF req[p].kind = "login" THEN req[p].user
    ELSE m

\* if reclaimed > 0: log_action(vetter, None, "STALE_CHECK")
StaleCheckLog(p) ==
    /\ pc[p] = "stale_check"
    /\ AuditSize < MaxAudit
    /\ audit_logs' = log_action(audit_logs, req[p].user, NoMember, "STALE_CHECK")
    /\ Goto(p, "select", TRUE)
    /\ UNCHANGED <<vaultvars, pii, now, members, locals>>

\* the query of the first pending member, oldest first
SelectPending(p) ==
    /\ pc[p] = "select"
    /\ IF PendingIds(members) = {}
       THEN Return(p, Ok(Outcome(p, NoMember)), FALSE)
       ELSE \E m \in FirstPending(members) :
            /\ next_member' = [next_member EXCEPT ![p] = m]
            /\ loaded' = [loaded EXCEPT ![p] = [k \in {m} |-> Row(members, m)]]
            /\ Goto(p, "assign", FALSE)
            /\ UNCHANGED <<stale_members, reclaimed_count>>
    /\ UNCHANGED <<vaultvars, pii, now, dbvars>>

\* the selected row is assigned and
\* log_action(vetter_id, next_member.id, "AUTO_ASSIGNED") commits
AssignNext(p) ==
    /\ pc[p] = "assign"
    /\ LET m == next_member[p]
           old == loaded[p][m]
           new == Assigned(old, req[p].user)
       IN  IF m \notin DOMAIN members
           THEN /\ Return(p, Err("error"), FALSE)
                /\ UNCHANGED dbvars
           ELSE /\ AuditSize < MaxAudit
                /\ members' = Flush(members, m, old, new)
                /\ audit_logs' = log_action(audit_logs, req[p].user, m,
                                            "AUTO_ASSIGNED")
                /\ Return(p, Ok(Outcome(p, m)), TRUE)
    /\ UNCHANGED <<vaultvars, pii, now>>

\* ---- PATCH /members/{member_id}/status ---------------------------------------------
\* callers and statuses: the users and the update.status values of the requests
update_member_status(p, callers, statuses) ==
    \E u \in callers, m \in MemberIds, s \in statuses :
        LET r == [kind |-> "status", user |-> u, member |-> m, status |-> s]
        IN  IF m \notin DOMAIN members THEN Refuse(p, "not_found")
            ELSE IF ~check_member_access(Row(members, m), u)
                 THEN Refuse(p, "forbidden")
            ELSE IF s = None
                 THEN /\ pc[p] = "idle"
                      /\ Return(p, Ok(m), FALSE)
                      /\ UNCHANGED <<vaultvars, pii, now, dbvars>>
            ELSE LoadMember(p, r, "status_write")

\* (a vetter is given the next record only after vetting one)
CompletesByVetting(u, s) == role(u) = VETTER /\ s = VETTED

\* if current_user.role == VETTER and update.status in [VETTED, REJECTED]
Completes(u, s) == role(u) = VETTER /\ s \in {VETTED, REJECTED}

\* member.status = update.status and
\* log_action(user, member.id, "STATUS_CHANGED") commits
StatusWrite(p) ==
    /\ pc[p] = "status_write"
    /\ LET m == req[p].member
           old == loaded[p][m]
           new == StatusSet(old, req[p].status)
       IN  IF new # old /\ m \notin DOMAIN members
           THEN /\ Return(p, Err("error"), FALSE)
                /\ UNCHANGED dbvars
           ELSE /\ AuditSize < MaxAudit
                /\ members' = IF new = old THEN members
                              ELSE Flush(members, m, old, new)
                /\ audit_logs' = log_action(audit_logs, req[p].user, m,
                                            "STATUS_CHANGED")
                /\ IF Completes(req[p].user, req[p].status)
                   THEN /\ Goto(p, "reclaim_query", TRUE)
                        /\ loaded' = [loaded EXCEPT ![p] = NoRows]
                        /\ UNCHANGED <<stale_members, reclaimed_count, next_member>>
                   ELSE Return(p, Ok(m), TRUE)
    /\ UNCHANGED <<vaultvars, pii, now>>

\* ---- POST /members/{member_id}/notes -------------------------------------------------
add_member_note(p, callers) ==
    \E u \in callers, m \in MemberIds :
        LET r == [kind |-> "note", user |-> u, member |-> m, status |-> None]
        IN  IF m \notin DOMAIN members THEN Refuse(p, "not_found")
            ELSE IF ~check_member_access(Row(members, m), u)
                 THEN Refuse(p, "forbidden")
            ELSE members[m].notes < MaxNotes /\ LoadMember(p, r, "note_write")

\* the note is appended and log_action(user, member.id, "NOTE_ADDED") commits
NoteWrite(p) ==
    /\ pc[p] = "note_write"
    /\ LET m == req[p].member
           old == loaded[p][m]
           new == NoteAppended(old)
       IN  IF m \notin DOMAIN members
           THEN /\ Return(p, Err("error"), FALSE)
                /\ UNCHANGED dbvars
           ELSE /\ AuditSize < MaxAudit
                /\ members' = Flush(members, m, old, new)
                /\ audit_logs' = log_action(audit_logs, req[p].user, m, "NOTE_ADDED")
                /\ Return(p, Ok(m), TRUE)
    /\ UNCHANGED <<vaultvars, pii, now>>

\* ---- GET /members/{member_id} ---------------------------------------------------------
get_member(p, callers) ==
    \E u \in callers, m \in MemberIds :
        LET r == [kind |-> "get", user |-> u, member |-> m, status |-> None]
        IN  IF m \notin DOMAIN members THEN Refuse(p, "not_found")
            ELSE IF ~check_member_access(Row(members, m), u)
                 THEN Refuse(p, "forbidden")
            ELSE LoadMember(p, r, "view_log")

\* log_action(user, member.id, "VIEWED_PII") commits and the member is returned
ViewLog(p) ==
    /\ pc[p] = "view_log"
    /\ AuditSize < MaxAudit
    /\ audit_logs' = log_action(audit_logs, req[p].user, req[p].member, "VIEWED_PII")
    /\ Return(p, Ok(req[p].member), TRUE)
    /\ UNCHANGED <<vaultvars, pii, now, members>>

\* ---- DELETE /members/{member_id} -------------------------------------------------------
delete_member(p) ==
    \E u \in Users, m \in MemberIds :
        LET r == [kind |-> "delete", user |-> u, member |-> m, status |-> None]
        IN  IF role(u) # SUPER_ADMIN THEN Refuse(p, "forbidden_role")
            ELSE IF m \notin DOMAIN members THEN Refuse(p, "not_found")
            ELSE LoadMember(p, r, "delete_log")

\* log_action(admin, member.id, "MEMBER_DELETED") commits before anything is removed
DeleteLog(p) ==
    /\ pc[p] = "delete_log"
    /\ AuditSize < MaxAudit
    /\ audit_logs' = log_action(audit_logs, req[p].user, req[p].member,
                                "MEMBER_DELETED")
    /\ loaded' = [loaded EXCEPT ![p] = NoRows]
    /\ Goto(p, "delete_commit", TRUE)
    /\ UNCHANGED <<vaultvars, pii, now, members, stale_members, reclaimed_count, next_member>>

\* (a cleanup that also sweeps away the entries without a subject)
WithoutSubjectOrNone(logs, m) ==
    [e \in {x \in DOMAIN logs : x.member_id \notin {m, NoMember}} |-> logs[e]]

\* db.query(AuditLog).filter(AuditLog.member_id == member_id).delete()
WithoutSubject(logs, m) ==
    [e \in {x \in DOMAIN logs : x.member_id # m} |-> logs[e]]

\* db.query(AuditLog).filter(member_id == id).delete(); db.delete(member); db.commit()
DeleteCommit(p) ==
    /\ pc[p] = "delete_commit"
    /\ LET m == req[p].member
       IN  /\ audit_logs' = WithoutSubject(audit_logs, m)
           /\ members' = [k \in DOMAIN members \ {m} |-> members[k]]
    /\ Return(p, Ok(NoMember), TRUE)
    /\ UNCHANGED <<vaultvars, pii, now>>

\* ---- the end of a request --------------------------------------------------------------
\* the response is sent; the slot is free for the next request
Respond(p) ==
    /\ pc[p] = "done"
    /\ pc' = [pc EXCEPT ![p] = "idle"]
    /\ result' = [result EXCEPT ![p] = NoResult]
    /\ UNCHANGED <<vaultvars, pii, now, dbvars, req, locals, snap, quiet>>

\* the process dies, or storage fails, between two steps of a handler: what the
\* session has not committed is lost
Abort(p) ==
    /\ pc[p] \notin {"idle", "done"}
    /\ pc' = [pc EXCEPT ![p] = "idle"]
    /\ req' = [req EXCEPT ![p] = NoReq]
    /\ ClearLocals(p)
    /\ snap' = [snap EXCEPT ![p] = NoSnap]
    /\ quiet' = [quiet EXCEPT ![p] = FALSE]
    /\ UNCHANGED <<vaultvars, pii, now, dbvars, result>>

\* ---- specifications ----------------------------------------------------------------------
\* the steps of the assignment engine in the request slots P
Engine(P) ==
    \/ \E p \in P : get_next_candidate(p)
    \/ \E p \in P : reclaim_stale_assignments_endpoint(p)
    \/ \E p \in P : ReclaimRefresh(p)
    \/ \E p \in P : ReclaimOne(p)
    \/ \E p \in P : ManualLog(p)
    \/ \E p \in P : StaleCheckLog(p)
    \/ \E p \in P : SelectPending(p)
    \/ \E p \in P : AssignNext(p)
    \/ \E p \in P : Respond(p)

Serial == {"r1"}

Next ==
    \/ Tick
    \/ submit_application
    \/ Engine(Serial)
    \/ \E p \in Serial : Abort(p)

Spec == Init /\ [][Next]_vars

\* two requests in flight at once
ConcNext ==
    \/ Tick
    \/ submit_application
    \/ Engine(Procs)

ConcSpec == Init /\ [][ConcNext]_vars

\* vetters completing the records assigned to them, with the engine
Completions == {VETTED, REJECTED}

StatusNext ==
    \/ Next
    \/ \E p \in Serial : update_member_status(p, Vetters, Completions)
    \/ \E p \in Serial : StatusWrite(p)
    \/ \E p \in Serial : ReclaimQuery(p)

StatusSpec == Init /\ [][StatusNext]_vars

\* users logging in while applications arrive and time passes
LoginNext ==
    \/ Tick
    \/ submit_application
    \/ \E p \in Serial : login(p)
    \/ \E p \in Serial : ReclaimRefresh(p)
    \/ \E p \in Serial : ReclaimOne(p)
    \/ \E p \in Serial : StaleCheckLog(p)
    \/ \E p \in Serial : SelectPending(p)
    \/ \E p \in Serial : AssignNext(p)
    \/ \E p \in Serial : Respond(p)

LoginSpec == Init /\ [][LoginNext]_vars

\* a vetter asking for the next record in one request slot while an administrator
\* marks records VETTED in the other
RaceNext ==
    \/ Tick
    \/ submit_application
    \/ \E p \in Serial : get_next_candidate(p)
    \/ \E p \in Serial : ReclaimRefresh(p)
    \/ \E p \in Serial : ReclaimOne(p)
    \/ \E p \in Serial : StaleCheckLog(p)
    \/ \E p \in Serial : SelectPending(p)
    \/ \E p \in Serial : AssignNext(p)
    \/ \E p \in Procs \ Serial : update_member_status(p, Admins, {VETTED})
    \/ \E p \in Procs \ Serial : StatusWrite(p)
    \/ \E p \in Procs : Respond(p)

RaceSpec == Init /\ [][RaceNext]_vars

\* vetters reading, completing and annotating records, and asking for the next
AccessNext ==
    \/ submit_application
    \/ \E p \in Serial : get_next_candidate(p)
    \/ \E p \in Serial : SelectPending(p)
    \/ \E p \in Serial : AssignNext(p)
    \/ \E p \in Serial : get_member(p, Vetters)
    \/ \E p \in Serial : ViewLog(p)
    \/ \E p \in Serial : update_member_status(p, Vetters, Completions)
    \/ \E p \in Serial : StatusWrite(p)
    \/ \E p \in Serial : ReclaimQuery(p)
    \/ \E p \in Serial : add_member_note(p, Vetters)
    \/ \E p \in Serial : NoteWrite(p)
    \/ \E p \in Serial : Respond(p)

AccessSpec == Init /\ [][AccessNext]_vars

\* administrators deleting records, with the engine and with crashes
DeleteNext ==
    \/ Next
    \/ \E p \in Serial : delete_member(p)
    \/ \E p \in Serial : DeleteLog(p)
    \/ \E p \in Serial : DeleteCommit(p)

DeleteSpec == Init /\ [][DeleteNext]_vars

\* ---- strings, the blind index and the encryption service -------------------------
\* a string is the sequence of its characters; the longest one drawn as an input
MaxLen == 2
Alphabet == {"a", "A", "b", " "}
Strings == UNION {[1..k -> Alphabet] : k \in 0..MaxLen}
\* Python's None where a string is expected
PyNone == <<None>>

\* str.lower
lower(s) == [i \in 1..Len(s) |-> IF s[i] = "A" THEN "a" ELSE s[i]]

\* str.strip: leading and trailing whitespace removed
RECURSIVE lstrip(_)
lstrip(s) == IF s # <<>> /\ Head(s) = " " THEN lstrip(Tail(s)) ELSE s

RECURSIVE rstrip(_)
rstrip(s) == IF s # <<>> /\ s[Len(s)] = " " THEN rstrip(SubSeq(s, 1, Len(s) - 1)) ELSE s

strip(s) == rstrip(lstrip(s))

\* hashlib.sha256(x).hexdigest(): 64 hexadecimal digits, never empty, and taken
\* to be free of collisions
sha256_hexdigest(x) == <<"sha256">> \o x

\* (a digest of the email as typed, capitals and blanks kept)
generate_blind_index_as_typed(email, salt) ==
    IF email = PyNone \/ email = <<>> THEN <<>>
    ELSE sha256_hexdigest(email \o <<salt>>)

\* services/blind_index.py generate_blind_index: "" for a falsy email, else the
\* digest of the lower-cased, stripped email followed by the salt
generate_blind_index(email, salt) ==
    IF email = PyNone \/ email = <<>> THEN <<>>
    ELSE sha256_hexdigest(strip(lower(email)) \o <<salt>>)

\* Fernet(key).encrypt(s): a token under a fresh IV
IVs == {"iv1", "iv2"}
fernet_encrypt(key, s, iv) == <<[key |-> key, plain |-> s, iv |-> iv]>>

\* what a call on the encryption service comes to: the value returned or the
\* exception raised, and whether the cipher was used
Returned(v, used) == [status |-> "ok", value |-> v, used |-> used]
Raised(e, used) == [status |-> e, value |-> <<>>, used |-> used]

\* (an encryption that hands the empty string to the cipher like any other)
service_encrypt_no_short_circuit(c, plaintext, iv) ==
    IF c = None THEN Raised("RuntimeError", FALSE)
    ELSE Returned(fernet_encrypt(c, plaintext, iv), TRUE)

\* EncryptionService.encrypt with _cipher = c
service_encrypt(c, plaintext, iv) ==
    IF plaintext = <<>> \/ plaintext = PyNone THEN Returned(<<>>, FALSE)
    ELSE IF c = None THEN Raised("RuntimeError", FALSE)
    ELSE Returned(fernet_encrypt(c, plaintext, iv), TRUE)

\* (a decryption that answers the empty string when no cipher is there)
service_decrypt_lenient(c, ciphertext) ==
    IF ciphertext = <<>> \/ c = None THEN Returned(<<>>, FALSE)
    ELSE IF ciphertext[1].key # c THEN Raised("InvalidToken", TRUE)
    ELSE Returned(ciphertext[1].plain, TRUE)

\* EncryptionService.decrypt with _cipher = c
service_decrypt(c, ciphertext) ==
    IF ciphertext = <<>> THEN Returned(<<>>, FALSE)
    ELSE IF c = None THEN Raised("RuntimeError", FALSE)
    ELSE IF ciphertext[1].key # c THEN Raised("InvalidToken", TRUE)
    ELSE Returned(ciphertext[1].plain, TRUE)

\* ---- the lock gate (main.py) ---------------------------------------------------------
Paths == {"/api/unlock", "/api/health", "/api/apply"}

\* main.vault_mode_enabled, evaluated at every request
vault_mode_enabled == vault_file.exists /\ settings.SECRET_KEY = ""

\* (a gate that lets every path through)
admits_everything(path) == TRUE

\* (a gate that looks at the vault file alone)
admits_without_vault_only(path) ==
    \/ ~vault_file.exists
    \/ path \in {"/api/unlock", "/api/health"}

\* LockMiddleware.dispatch: whether the request goes on to its handler
admits(path) ==
    \/ ~vault_mode_enabled
    \/ unlocked
    \/ path \in {"/api/unlock", "/api/health"}

\* the process starts: lifespan runs initialize_app in direct mode only, and
\* initialize_app initializes the encryption service if a key was supplied
GateInit ==
    /\ InitWorkflow
    /\ VaultManager
    /\ \/ /\ vault_file = NoFile
          /\ sealed = [password |-> None, secrets |-> NoSecrets, file |-> NoFile]
       \/ \E P \in Passwords, S \in Bundles :
            /\ vault_file = create_vault(P, S, "salt1")
            /\ sealed = [password |-> P, secrets |-> S, file |-> create_vault(P, S, "salt1")]
    /\ settings \in {NoSettings, EnvSettings}
    /\ cipher = IF ~vault_mode_enabled /\ settings.ENCRYPTION_KEY # ""
                THEN settings.ENCRYPTION_KEY ELSE None

\* (a health check that never reports the lock)
health_status_always_healthy(enabled, is_unlocked) == "healthy"

\* main.health_check
health_status(enabled, is_unlocked) ==
    IF enabled /\ ~is_unlocked THEN "locked" ELSE "healthy"

\* GET /api/health
health_check ==
    /\ admits("/api/health")
    /\ outcome' = [op |-> "health", password |-> None,
                   result |-> health_status(vault_mode_enabled, unlocked)]
    /\ UNCHANGED <<vault_file, unlocked, secrets, sealed, servicevars, pii, workflow>>

\* a request for any other path while the gate is shut: 503
locked_out(p) ==
    /\ \E path \in Paths : ~admits(path)
    /\ Refuse(p, "locked")

\* the addresses applicants give (EmailStr has validated them)
Emails == {<<"a">>, <<"A">>, <<"b">>, <<"a", " ">>}

\* POST /api/apply behind the gate: public.submit_application with the email
\* column, its duplicate check on the blind index and the encrypting setters
apply(p) ==
    /\ pc[p] = "idle"
    /\ admits("/api/apply")
    /\ \E email \in Emails, iv \in IVs :
         LET email_index == generate_blind_index(email, settings.EMAIL_BLIND_INDEX_SALT)
             existing == \E m \in DOMAIN pii : pii[m].email_blind_index = email_index
             e == service_encrypt(cipher, email, iv)
         IN  IF existing
             THEN /\ Return(p, Err("409"), FALSE)
                  /\ UNCHANGED <<vaultvars, pii, now, dbvars>>
             ELSE IF e.status # "ok"
             THEN /\ Return(p, Err("500"), FALSE)
                  /\ UNCHANGED <<vaultvars, pii, now, dbvars>>
             ELSE /\ NewId <= MaxMembers
                  /\ members' = [m \in DOMAIN members \cup {NewId} |->
                                   IF m = NewId
                                   THEN [status |-> PENDING, assigned_vetter_id |-> None,
                                         notes |-> 0, created_at |-> now, updated_at |-> now]
                                   ELSE members[m]]
                  /\ pii' = [m \in DOMAIN pii \cup {NewId} |->
                               IF m = NewId
                               THEN [email |-> e.value, email_blind_index |-> email_index]
                               ELSE pii[m]]
                  /\ Return(p, Ok(NewId), TRUE)
                  /\ UNCHANGED <<vaultvars, now, audit_logs>>

\* vault.py create run beside the running process: the file appears
create_vault_file ==
    /\ ~vault_file.exists
    /\ \E P \in Passwords, S \in Bundles :
         /\ vault_file' = create_vault(P, S, "salt1")
         /\ sealed' = [password |-> P, secrets |-> S, file |-> create_vault(P, S, "salt1")]
    /\ UNCHANGED <<unlocked, secrets, outcome, servicevars, pii, workflow>>

GateNext ==
    \/ admits("/api/unlock") /\ post_unlock
    \/ health_check
    \/ \E p \in Serial : locked_out(p)
    \/ \E p \in Serial : apply(p)
    \/ \E p \in Serial : Respond(p)
    \/ create_vault_file

GateSpec == GateInit /\ [][GateNext]_vars

\* ---- POST /api/unlock on the event loop (routers/unlock.py, main.py) ------------------
\* the response that sends the browser to the home page
Redirect == [code |-> "303", value |-> NoMember]

\* (an unlock handler that gives up the event loop between unlocking the vault and
\* initializing the encryption service)
EventLoopYielded == TRUE

\* unlock is an async def that awaits nothing: from vault_manager.unlock to its
\* return it holds the event loop, on which LockMiddleware.dispatch runs
EventLoopFree == \A p \in Procs : pc[p] # "unlock_load"

\* the handler up to vault_manager.unlock(password): _secrets and _unlocked are set
unlock_call(p) ==
    /\ pc[p] = "idle"
    /\ admits("/api/unlock")
    /\ \E password \in Passwords :
         LET r == unlock_result(vault_file, password)
         IN  IF unlocked
             THEN /\ Return(p, Redirect, FALSE)
                  /\ UNCHANGED <<secrets, unlocked>>
             ELSE IF r = "True"
             THEN /\ secrets' = vault_file.json.data.plain
                  /\ unlocked' = TRUE
                  /\ pc' = [pc EXCEPT ![p] = "unlock_load"]
                  /\ UNCHANGED <<req, result, snap, quiet, locals>>
             ELSE /\ Return(p, Err(unlock_status(unlocked, r)), FALSE)
                  /\ UNCHANGED <<secrets, unlocked>>
    /\ UNCHANGED <<vault_file, sealed, outcome, servicevars, pii, now, dbvars>>

\* the rest of the handler: load_secrets_from_vault(secrets),
\* encryption_service.initialize(settings.ENCRYPTION_KEY), and the redirect
unlock_load(p) ==
    /\ pc[p] = "unlock_load"
    /\ LET loaded_settings == load_secrets_from_vault(settings, secrets)
       IN  /\ settings' = loaded_settings
           /\ cipher' = loaded_settings.ENCRYPTION_KEY
    /\ Return(p, Redirect, FALSE)
    /\ UNCHANGED <<vault_file, unlocked, secrets, sealed, outcome, pii, now, dbvars>>

\* requests dispatched while an unlock may be under way
UnlockNext ==
    \/ \E p \in Procs \ Serial : EventLoopFree /\ unlock_call(p)
    \/ \E p \in Procs \ Serial : unlock_load(p)
    \/ EventLoopFree /\ health_check
    \/ \E p \in Serial : EventLoopFree /\ locked_out(p)
    \/ \E p \in Serial : EventLoopFree /\ apply(p)
    \/ \E p \in Procs : Respond(p)
    \/ create_vault_file

UnlockSpec == GateInit /\ [][UnlockNext]_vars

\* ---- the encryption service on its own (services/encryption.py) ----------------------
Keys == {"ekA", "ekB", "ekE"}
\* what decrypt may be handed: the empty string and the tokens of any key
Ciphertexts ==
    {<<>>} \cup {fernet_encrypt(k, x, iv) : k \in Keys, x \in Strings \ {<<>>}, iv \in IVs}

\* EncryptionService(): no cipher yet
EncInit ==
    /\ InitWorkflow
    /\ VaultManager
    /\ vault_file = NoFile
    /\ sealed = [password |-> None, secrets |-> NoSecrets, file |-> NoFile]
    /\ settings = NoSettings
    /\ cipher = None

ServiceCall(op, input, r) ==
    [op |-> op, password |-> None, result |-> r.status, input |-> input,
     value |-> r.value, used |-> r.used]

\* EncryptionService.initialize(key)
initialize ==
    /\ \E key \in Keys :
         /\ cipher' = key
         /\ outcome' = ServiceCall("initialize", <<key>>, Returned(<<>>, FALSE))
    /\ UNCHANGED <<vault_file, unlocked, secrets, sealed, settings, pii, workflow>>

\* EncryptionService.encrypt(plaintext)
encrypt_call ==
    /\ \E plaintext \in Strings, iv \in IVs :
         outcome' = ServiceCall("encrypt", plaintext, service_encrypt(cipher, plaintext, iv))
    /\ UNCHANGED <<vault_file, unlocked, secrets, sealed, servicevars, pii, workflow>>

\* EncryptionService.decrypt(ciphertext)
decrypt_call ==
    /\ \E ciphertext \in Ciphertexts :
         outcome' = ServiceCall("decrypt", ciphertext, service_decrypt(cipher, ciphertext))
    /\ UNCHANGED <<vault_file, unlocked, secrets, sealed, servicevars, pii, workflow>>

\* decrypt(encrypt(plaintext)), as the setter and the getter of a PII column
\* do in turn; an exception in encrypt is what comes of the whole
round_trip ==
    /\ \E plaintext \in Strings, iv \in IVs :
         LET e == service_encrypt(cipher, plaintext, iv)
         IN  outcome' = ServiceCall("round_trip", plaintext,
                                    IF e.status = "ok" THEN service_decrypt(cipher, e.value)
                                    ELSE e)
    /\ UNCHANGED <<vault_file, unlocked, secrets, sealed, servicevars, pii, workflow>>

EncNext ==
    \/ initialize
    \/ encrypt_call
    \/ decrypt_call
    \/ round_trip

EncSpec == EncInit /\ [][EncNext]_vars

\* ---- the blind index on its own (services/blind_index.py) -----------------------------
\* what generate_blind_index may be handed
EmailInputs == Strings \cup {PyNone}

\* two inputs are drawn; the salt is whatever the settings hold
BlindInit ==
    /\ InitWorkflow
    /\ unlocked = FALSE
    /\ secrets = NoSecrets
    /\ \E a \in EmailInputs, b \in EmailInputs :
         outcome = [op |-> "inputs", password |-> None, result |-> None,
                    a |-> a, b |-> b, index_a |-> <<>>, index_b |-> <<>>]
    /\ vault_file = NoFile
    /\ sealed = [password |-> None, secrets |-> NoSecrets, file |-> NoFile]
    /\ settings \in {EnvSettings, Content("bundleA")}
    /\ cipher = None

\* generate_blind_index(a) and generate_blind_index(b), side by side
blind_index_calls ==
    /\ outcome.op = "inputs"
    /\ outcome' = [outcome EXCEPT
         !.op = "blind_index",
         !.result = "ok",
         !.index_a = generate_blind_index(outcome.a, settings.EMAIL_BLIND_INDEX_SALT),
         !.index_b = generate_blind_index(outcome.b, settings.EMAIL_BLIND_INDEX_SALT)]
    /\ UNCHANGED <<vault_file, unlocked, secrets, sealed, servicevars, pii, workflow>>

BlindNext == blind_index_calls

BlindSpec == BlindInit /\ [][BlindNext]_vars

\* ---- POST /api/apply step by step (routers/public.py) ----------------------------------
\* the body is parsed and MemberCreate validates the standard fields
submit_arrive(p) ==
    \E email \in Emails :
        /\ NewId <= MaxMembers
        /\ Begin(p, [kind |-> "apply", user |-> None, member |-> NoMember,
                     status |-> None, email |-> email], "submit_query")
        /\ UNCHANGED locals

\* the duplicate check: SELECT ... WHERE email_blind_index = :index
submit_query(p) ==
    /\ pc[p] = "submit_query"
    /\ LET email_index == generate_blind_index(req[p].email, settings.EMAIL_BLIND_INDEX_SALT)
           existing == \E m \in DOMAIN pii : pii[m].email_blind_index = email_index
       IN  IF existing
           THEN Return(p, Err("409"), FALSE)
           ELSE Goto(p, "submit_commit", FALSE) /\ UNCHANGED locals
    /\ UNCHANGED <<vaultvars, pii, now, dbvars>>

\* the setters encrypt the fields, then db.add and db.commit: the INSERT
submit_commit(p) ==
    /\ pc[p] = "submit_commit"
    /\ \E iv \in IVs :
         LET e == service_encrypt(cipher, req[p].email, iv)
             email_index == generate_blind_index(req[p].email, settings.EMAIL_BLIND_INDEX_SALT)
         IN  IF e.status # "ok"
             THEN /\ Return(p, Err("500"), FALSE)
                  /\ UNCHANGED <<vaultvars, pii, now, dbvars>>
             ELSE /\ NewId <= MaxMembers
                  /\ members' = [m \in DOMAIN members \cup {NewId} |->
                                   IF m = NewId
                                   THEN [status |-> PENDING, assigned_vetter_id |-> None,
                                         notes |-> 0, created_at |-> now, updated_at |-> now]
                                   ELSE members[m]]
                  /\ pii' = [m \in DOMAIN pii \cup {NewId} |->
                               IF m = NewId
                               THEN [email |-> e.value, email_blind_index |-> email_index]
                               ELSE pii[m]]
                  /\ Return(p, Ok(NewId), TRUE)
                  /\ UNCHANGED <<vaultvars, now, audit_logs>>

\* the steps of the submission in the request slots P
Submission(P) ==
    \/ \E p \in P : submit_arrive(p)
    \/ \E p \in P : submit_query(p)
    \/ \E p \in P : submit_commit(p)
    \/ \E p \in P : Respond(p)

\* one submission at a time
SubmitNext == Submission(Serial)

SubmitSpec == Init /\ [][SubmitNext]_vars

\* submissions in flight at once
SubmitConcNext == Submission(Procs)

SubmitConcSpec == Init /\ [][SubmitConcNext]_vars

\* ---- the queue in the long run ---------------------------------------------------
\* the ledger up to repetition: an entry it already holds is not counted again,
\* so that calls without end keep it finite
noted(logs, user_id, member_id, action) ==
    IF CopiesIn(AuditLog(user_id, member_id, action), logs) > 0 THEN logs
    ELSE log_action(logs, user_id, member_id, action)

\* reclaim_stale_assignments run to its end on db = (members, audit ledger): for
\* member in stale_members, in the order of the query
RECURSIVE reclaim_stale_assignments(_, _)
reclaim_stale_assignments(db, stale) ==
    IF stale = <<>> THEN db
    ELSE LET m == Head(stale)
             old == Row(db.members, m)
         IN  reclaim_stale_assignments(
                 [members |-> Flush(db.members, m, old, Reclaimed(old)),
                  audit |-> noted(db.audit, None, m, "ASSIGNMENT_RECLAIMED")],
                 Tail(stale))

\* if reclaimed > 0: log_action(vetter_id, None, "STALE_CHECK")
stale_check(db, vetter_id, reclaimed) ==
    IF reclaimed > 0
    THEN [db EXCEPT !.audit = noted(@, vetter_id, NoMember, "STALE_CHECK")]
    ELSE db

\* the first pending row m is assigned and the assignment logged
assign_next(db, vetter_id, m) ==
    [members |-> Flush(db.members, m, Row(db.members, m),
                       Assigned(Row(db.members, m), vetter_id)),
     audit |-> noted(db.audit, vetter_id, m, "AUTO_ASSIGNED")]

\* POST /members/next-candidate by vetter w, from the request to the response,
\* with no other request in between: auto_assign_next_member run to its end
next_candidate(w) ==
    /\ \A p \in Procs : pc[p] = "idle"
    /\ \E stale \in {SortedSeq(StaleIds(members, now))} :
       \E reclaimed \in {reclaim_stale_assignments(
                            [members |-> members, audit |-> audit_logs], stale)} :
       \E db \in {stale_check(reclaimed, w, Len(stale))} :
          IF PendingIds(db.members) = {}
          THEN /\ members' = db.members
               /\ audit_logs' = db.audit
          ELSE \E m \in FirstPending(db.members) :
               \E assigned \in {assign_next(db, w, m)} :
                  /\ members' = assigned.members
                  /\ audit_logs' = assigned.audit
    /\ UNCHANGED <<vaultvars, pii, now, pc, req, locals, result, snap, quiet>>

\* how many creation times of the table are earlier than that of row m
Rank(tbl, m) ==
    Cardinality({tbl[k].created_at : k \in DOMAIN tbl} \cap 0..(tbl[m].created_at - 1))

\* days go by after the last instant the clock can show: the clock keeps its
\* reading and every timestamp moves back instead.  updated_at stops at 0 (older
\* than the threshold), created_at at its rank, so that is-stale and the order
\* of creation are what they would be with the clock moved forward.
Elapse ==
    /\ \A t \in Instants : t <= now
    /\ \E d \in {STALE_ASSIGNMENT_DAYS, STALE_ASSIGNMENT_DAYS + 1} :
         members' = [m \in DOMAIN members |->
                       [members[m] EXCEPT
                          !.created_at = Max({Rank(members, m), @ - d}),
                          !.updated_at = Max({0, @ - d})]]
    /\ quiet' = [q \in Procs |-> FALSE]
    /\ snap' = [q \in Procs |-> NoSnap]
    /\ UNCHANGED <<vaultvars, pii, now, audit_logs, pc, req, locals, result>>

FairNext ==
    \/ Tick
    \/ Elapse
    \/ submit_application
    \/ \E w \in Vetters : next_candidate(w)

\* every vetter keeps asking for the next record
FairSpec ==
    /\ Init
    /\ [][FairNext]_vars
    /\ \A w \in Vetters : WF_vars(next_candidate(w))

\* vetters asking for the next record and reading the records they hold,
\* administrators overriding a status, and time passing
AuditNext ==
    \/ Tick
    \/ submit_application
    \/ \E p \in Serial : get_next_candidate(p)
    \/ \E p \in Serial : ReclaimRefresh(p)
    \/ \E p \in Serial : ReclaimOne(p)
    \/ \E p \in Serial : StaleCheckLog(p)
    \/ \E p \in Serial : SelectPending(p)
    \/ \E p \in Serial : AssignNext(p)
    \/ \E p \in Serial : update_member_status(p, Admins, {REJECTED})
    \/ \E p \in Serial : StatusWrite(p)
    \/ \E p \in Serial : get_member(p, Vetters)
    \/ \E p \in Serial : ViewLog(p)
    \/ \E p \in Serial : Respond(p)

AuditSpec == Init /\ [][AuditNext]_vars

TypeOK ==
    /\ now \in 0..MaxTime
    /\ DOMAIN members \subseteq MemberIds
    /\ \A m \in DOMAIN members :
         /\ members[m].status \in MemberStatus
         /\ members[m].assigned_vetter_id \in Users \cup {None}
         /\ members[m].notes \in 0..MaxNotes
    /\ AuditSize <= MaxAudit
    /\ \A p \in Procs : pc[p] \in {"idle", "done"} =>
         /\ req[p] = NoReq /\ snap[p] = NoSnap /\ ~quiet[p]
         /\ loaded[p] = NoRows /\ stale_members[p] = <<>>
\* ---- the audit ledger, as the claims read it ------------------------------------
Actors == Users \cup {None}

\* how many entries the ledger holds for (actor, member, action)
Entries(logs, u, m, a) == CopiesIn(AuditLog(u, m, a), logs)

HasEntry(logs, m, a) == \E u \in Actors : Entries(logs, u, m, a) > 0

\* ---- C1 ---------------------------------------------------------------------------
\* C1 (as claimed): two workers asking for the next record at the same time never
\* both come away with the same record: a record is not auto-assigned to two
\* different workers unless it went back to the pool (was reclaimed) in between.
C1_NeverBothAssigned ==
    \A m \in MemberIds :
        (\E u1, u2 \in Vetters :
            /\ u1 # u2
            /\ Entries(audit_logs, u1, m, "AUTO_ASSIGNED") > 0
            /\ Entries(audit_logs, u2, m, "AUTO_ASSIGNED") > 0)
        => HasEntry(audit_logs, m, "ASSIGNMENT_RECLAIMED")
\* ---- C2 ---------------------------------------------------------------------------
\* C2 (as claimed): in every reachable state each record's assigned worker is set
\* if and only if its status is ASSIGNED.
C2_AssignedIffStatus ==
    \A m \in DOMAIN members :
        (members[m].assigned_vetter_id # None) <=> (members[m].status = ASSIGNED)

\* C2 (amended): the equivalence holds for every record whose status no
\* update_status has set; update_status writes the status alone and leaves the
\* assigned worker as it was.
C2_AssignedIffStatusUntilUpdated ==
    \A m \in DOMAIN members :
        ~HasEntry(audit_logs, m, "STATUS_CHANGED") =>
            ((members[m].assigned_vetter_id # None) <=> (members[m].status = ASSIGNED))

\* a record that was reclaimed and is back in the pool beside a record a vetter
\* completed, which keeps its vetter
C2_Witness ==
    \E m, k \in DOMAIN members :
        /\ HasEntry(audit_logs, m, "ASSIGNMENT_RECLAIMED")
        /\ ~HasEntry(audit_logs, m, "STATUS_CHANGED")
        /\ members[m].status = PENDING
        /\ HasEntry(audit_logs, k, "STATUS_CHANGED")
        /\ members[k].status \in Completions
        /\ members[k].assigned_vetter_id # None
\* ---- C3 ---------------------------------------------------------------------------
\* the audit actions of the mutating operations
MutationActions == {"ASSIGNMENT_RECLAIMED", "AUTO_ASSIGNED", "STATUS_CHANGED",
                    "NOTE_ADDED", "MEMBER_DELETED"}

\* the committed state of record m differs across the step
C3_Changed(m) ==
    \/ m \notin DOMAIN members'
    \/ Row(members', m) # Row(members, m)

\* the step commits an audit entry of a mutating operation on record m
C3_Logged(m) ==
    \E u \in Actors, a \in MutationActions :
        Entries(audit_logs', u, m, a) > Entries(audit_logs, u, m, a)

\* C3 (as claimed): a state change and its audit entry become durable together:
\* no commit changes a record without adding the entry, or adds the entry
\* without the change, so no crash between steps can leave one without the other.
C3_DurableTogether ==
    [][\A m \in DOMAIN members : C3_Changed(m) <=> C3_Logged(m)]_vars
\* ---- C4 ---------------------------------------------------------------------------
\* the records of the tables tbl that are ASSIGNED and were last modified more
\* than 7 days before t
C4_Stale(tbl, t) ==
    {m \in DOMAIN tbl : tbl[m].status = ASSIGNED /\ t - tbl[m].updated_at > 7}

\* reclaim_stale_assignments has returned in request p, which no other writer
\* has disturbed since it arrived
C4_Returned(p) ==
    /\ pc[p] \in {"manual_log", "stale_check", "select"}
    /\ req[p].kind \in {"reclaim", "next"}
    /\ quiet[p]

\* C4: reclaim_stale returns exactly the number of records that were ASSIGNED and
\* last modified more than 7 days before it ran; each of them is then PENDING
\* with no assigned worker and has exactly one new ASSIGNMENT_RECLAIMED entry,
\* with no actor; every other record is as it was.
C4_ReclaimExact ==
    \A p \in Procs : C4_Returned(p) =>
        LET before == snap[p].members
            stale == C4_Stale(before, now)
        IN  /\ reclaimed_count[p] = Cardinality(stale)
            /\ DOMAIN members = DOMAIN before
            /\ \A m \in stale :
                 /\ members[m].status = PENDING
                 /\ members[m].assigned_vetter_id = None
                 /\ Entries(audit_logs, None, m, "ASSIGNMENT_RECLAIMED")
                      = Entries(snap[p].audit, None, m, "ASSIGNMENT_RECLAIMED") + 1
                 /\ \A u \in Users :
                      Entries(audit_logs, u, m, "ASSIGNMENT_RECLAIMED")
                        = Entries(snap[p].audit, u, m, "ASSIGNMENT_RECLAIMED")
            /\ \A m \in DOMAIN before \ stale :
                 /\ members[m] = before[m]
                 /\ \A u \in Actors :
                      Entries(audit_logs, u, m, "ASSIGNMENT_RECLAIMED")
                        = Entries(snap[p].audit, u, m, "ASSIGNMENT_RECLAIMED")

\* the administrator's reclaim has reclaimed one of two records and left the
\* other, which is assigned too
C4_Witness ==
    \E p \in Procs :
        /\ C4_Returned(p)
        /\ req[p].kind = "reclaim"
        /\ reclaimed_count[p] = 1
        /\ \E m, k \in DOMAIN members :
             /\ members[m].status = PENDING
             /\ snap[p].members[m].status = ASSIGNED
             /\ members[k].status = ASSIGNED

\* ---- C5 ---------------------------------------------------------------------------
\* the PENDING records of the earliest creation time
C5_Earliest ==
    {m \in DOMAIN members :
        /\ members[m].status = PENDING
        /\ \A k \in DOMAIN members :
             members[k].status = PENDING => members[m].created_at <= members[k].created_at}

\* C5 (as claimed): the record auto-assign selects is the PENDING record of the
\* earliest creation time and, among those of equal creation time, of the lowest
\* identifier.
C5_FifoLowestId ==
    [][\A p \in Procs :
          (pc[p] = "select" /\ pc'[p] = "assign") =>
              /\ next_member'[p] \in C5_Earliest
              /\ \A k \in C5_Earliest : next_member'[p] <= k]_vars

\* ---- C6 ---------------------------------------------------------------------------
\* request p, undisturbed, is worker w's call for the next record, made when no
\* record was PENDING and record m, assigned to another worker, was the one
\* stale assignment
C6_OnlyStaleCandidate(p, w, m) ==
    /\ req[p].kind = "next"
    /\ req[p].user = w
    /\ quiet[p]
    /\ \A k \in DOMAIN snap[p].members : snap[p].members[k].status # PENDING
    /\ C4_Stale(snap[p].members, now) = {m}
    /\ snap[p].members[m].assigned_vetter_id # w

\* C6: reclamation runs before selection within one auto-assign call: when worker
\* W asks for the next record and the only candidate is another worker's stale
\* assignment, the call ends with that record ASSIGNED to W and returns it.
C6_ReclaimThenAssign ==
    [][\A p \in Procs, w \in Vetters, m \in MemberIds :
          (C6_OnlyStaleCandidate(p, w, m) /\ pc'[p] = "done") =>
              /\ members'[m].status = ASSIGNED
              /\ members'[m].assigned_vetter_id = w
              /\ result'[p] = Ok(m)
              /\ HasEntry(audit_logs', m, "ASSIGNMENT_RECLAIMED")]_vars

\* a call has ended in which the caller's stale check reclaimed another
\* worker's record and the caller was assigned it
C6_Witness ==
    \E p \in Procs, w, v \in Vetters, m \in DOMAIN members :
        /\ w # v
        /\ pc[p] = "done"
        /\ result[p] = Ok(m)
        /\ members[m].status = ASSIGNED
        /\ members[m].assigned_vetter_id = w
        /\ Entries(audit_logs, v, m, "AUTO_ASSIGNED") = 1
        /\ Entries(audit_logs, None, m, "ASSIGNMENT_RECLAIMED") = 1
        /\ Entries(audit_logs, w, NoMember, "STALE_CHECK") = 1
        /\ Entries(audit_logs, w, m, "AUTO_ASSIGNED") = 1
\* ---- C7 ---------------------------------------------------------------------------
\* the records worker w's auto-assign chooses from when it follows the
\* completion of record m in request p: those that were PENDING or stale
C7_Pool(p, m) ==
    {k \in DOMAIN snap[p].members \ {m} :
        \/ snap[p].members[k].status = PENDING
        \/ k \in C4_Stale(snap[p].members, now)}

C7_Oldest(p, m) ==
    {k \in C7_Pool(p, m) :
        \A j \in C7_Pool(p, m) :
            snap[p].members[k].created_at <= snap[p].members[j].created_at}

\* request p, undisturbed, is worker w marking record m, assigned to w, VETTED
\* or REJECTED while another record is PENDING
C7_Completing(p, w, m) ==
    /\ req[p].kind = "status"
    /\ req[p].user = w
    /\ req[p].member = m
    /\ req[p].status \in {VETTED, REJECTED}
    /\ quiet[p]
    /\ snap[p].members[m].assigned_vetter_id = w
    /\ \E k \in DOMAIN snap[p].members \ {m} : snap[p].members[k].status = PENDING

AccessActions == {"VIEWED_PII", "STATUS_CHANGED", "NOTE_ADDED"}

\* C8: a vetter reads, changes the status of, or annotates a record only while
\* the record is assigned to that vetter; a request refused as unknown or
\* forbidden leaves the records and the audit ledger as they were.
C8_OwnRecordsOnly ==
    [][/\ \A u \in Vetters, m \in MemberIds, a \in AccessActions :
            Entries(audit_logs', u, m, a) > Entries(audit_logs, u, m, a) =>
                /\ m \in DOMAIN members
                /\ members[m].assigned_vetter_id = u
       /\ \A m \in DOMAIN members \cap DOMAIN members' :
            (members'[m].status \notin {members[m].status, ASSIGNED}
                \/ members'[m].notes # members[m].notes) =>
                \E u \in Vetters :
                    /\ members[m].assigned_vetter_id = u
                    /\ \E a \in AccessActions :
                         Entries(audit_logs', u, m, a) > Entries(audit_logs, u, m, a)
       /\ \A p \in Procs :
            (pc[p] = "idle" /\ pc'[p] = "done"
                /\ result'[p].code \in {"not_found", "forbidden"}) =>
                /\ members' = members
                /\ audit_logs' = audit_logs]_vars

\* a vetter's request has been refused while the other vetter holds a record
\* and has read it
C8_Witness ==
    \E p \in Procs, u \in Vetters, m \in DOMAIN members :
        /\ pc[p] = "done"
        /\ result[p].code = "forbidden"
        /\ members[m].assigned_vetter_id = u
        /\ Entries(audit_logs, u, m, "VIEWED_PII") > 0
        /\ \A v \in Vetters \ {u}, a \in AccessActions : Entries(audit_logs, v, m, a) = 0
\* ---- C9 ---------------------------------------------------------------------------
\* C9: for the vault created with password P sealing secrets S, as long as the
\* file is as created: secrets() fails with "Vault is locked" while no unlock
\* has succeeded; unlock(P) returns true and secrets() equals S from then on;
\* unlock with another password returns false and leaves is_unlocked and the
\* held secrets as they were, so a locked vault stays locked.
C9_UnlockContract ==
    [][vault_file = sealed.file =>
          /\ (outcome'.op = "secrets" /\ ~unlocked) =>
                outcome'.result = "Vault is locked"
          /\ (outcome'.op = "secrets" /\ unlocked) =>
                outcome'.result = sealed.secrets
          /\ (outcome'.op = "unlock" /\ outcome'.password = sealed.password) =>
                /\ outcome'.result = "True"
                /\ unlocked'
                /\ secrets' = sealed.secrets
          /\ (outcome'.op = "unlock" /\ outcome'.password # sealed.password) =>
                /\ outcome'.result = "False"
                /\ unlocked' = unlocked
                /\ secrets' = secrets]_vars

\* the vault has been unlocked with its password and the secrets read
C9_Witness ==
    /\ vault_file = sealed.file
    /\ unlocked
    /\ outcome.op = "secrets"
    /\ outcome.result = sealed.secrets
    /\ outcome.result \in Bundles

\* ---- C10 --------------------------------------------------------------------------
\* the file exists and is corrupted or truncated: malformed container, missing
\* or undecodable salt or data, or tampered ciphertext
C10_Corrupted(file) ==
    /\ file.exists
    /\ \/ ~file.wellformed
       \/ "salt" \notin DOMAIN file.json
       \/ "data" \notin DOMAIN file.json
       \/ file.json.salt = "undecodable"
       \/ ~file.json.data.text
       \/ ~file.json.data.intact

\* C10 (as claimed): on a corrupted or truncated vault file unlock returns false
\* for every password, never raises, and leaves is_unlocked and the held
\* secrets unchanged; only a missing file is signalled as a distinct error.
C10_CorruptedReturnsFalse ==
    [][outcome'.op = "unlock" =>
          /\ C10_Corrupted(vault_file) =>
                /\ outcome'.result = "False"
                /\ unlocked' = unlocked
                /\ secrets' = secrets
          /\ outcome'.result \notin {"True", "False"} => ~vault_file.exists]_vars
C12_Locked ==
    /\ vault_file.exists
    /\ settings.SECRET_KEY = ""
    /\ ~unlocked

C12_LockedRejectsAll ==
    [][C12_Locked =>
          /\ members' = members
          /\ audit_logs' = audit_logs
          /\ pii' = pii
          /\ \A p \in Procs : pc[p] = "idle" /\ pc'[p] # "idle" =>
                                 pc'[p] = "done" /\ result'[p] = Err("locked")
          /\ (outcome' = outcome \/ outcome'.op # "post_unlock" =>
                 /\ unlocked' = unlocked
                 /\ secrets' = secrets
                 /\ settings' = settings
                 /\ cipher' = cipher
                 /\ vault_file' = vault_file)]_vars

\* a request has just been turned away by the locked application
C12_Witness ==
    /\ C12_Locked
    /\ \E p \in Procs : pc[p] = "done" /\ result[p] = Err("locked")
    /\ members = NoRows
    /\ cipher = None

\* C13 as stated: once the gate has admitted operations, nothing that happens
\* later, be it a request or a change of the environment, makes it reject them.
C13_Admitting ==
    ~vault_file.exists \/ settings.SECRET_KEY # "" \/ unlocked

C13_GateOneWay ==
    [][C13_Admitting => C13_Admitting']_vars

\* C13 amended: once an unlock has succeeded, or with a key supplied directly,
\* the process is unlocked for good: no later request and no appearance of a
\* vault file makes the gate reject an operation. (A process started with no
\* key and no vault file admits operations too, and is locked by the vault
\* file appearing beside it.)
C13_Opened ==
    unlocked \/ settings.SECRET_KEY # ""

C13_OpenedStaysOpen ==
    [][C13_Opened =>
          /\ C13_Opened'
          /\ \A p \in Procs : pc[p] = "idle" /\ pc'[p] = "done" =>
                                 result'[p] # Err("locked")]_vars

\* an application was accepted after the unlock endpoint had opened the vault
C13_Witness ==
    /\ unlocked
    /\ outcome.op = "post_unlock"
    /\ outcome.result = "303"
    /\ vault_file.exists
    /\ \E p \in Procs : pc[p] = "done" /\ result[p] = Ok(1)

\* a step of the health endpoint: it reports and changes nothing else
C14_HealthStep ==
    /\ outcome'.op = "health"
    /\ UNCHANGED <<vault_file, unlocked, settings, cipher, pc, result>>

\* C14 as stated: the health signal reports "locked" exactly when the vault
\* exists and has not been opened, and "healthy" in every other state.
C14_LockedIffVaultUnopened ==
    [][C14_HealthStep =>
          /\ outcome'.result \in {"locked", "healthy"}
          /\ (outcome'.result = "locked" <=> vault_file.exists /\ ~unlocked)]_vars

\* C14 amended: the health signal reports "locked" exactly in the states in
\* which the lock gate rejects operations, that is when the vault file exists,
\* no SECRET_KEY was supplied directly and no unlock has succeeded, and
\* "healthy" in every other state; with a key supplied directly it reports
\* "healthy" beside an unopened vault file.
C14_LockedIffGateShut ==
    [][C14_HealthStep =>
          /\ outcome'.result \in {"locked", "healthy"}
          /\ (outcome'.result = "locked" <=>
                 vault_file.exists /\ settings.SECRET_KEY = "" /\ ~unlocked)]_vars

\* the health endpoint has reported "locked" while a request was turned away
C14_Witness ==
    /\ outcome.op = "health"
    /\ outcome.result = "locked"
    /\ vault_file.exists /\ ~unlocked
    /\ \E p \in Procs : pc[p] = "done" /\ result[p] = Err("locked")

\* C15 as stated: before initialize has been called, every encrypt and every
\* decrypt call fails with the "not ready" error and leaves the service
\* uninitialized.
C15_AllFailBeforeInitialize ==
    [][cipher = None /\ outcome'.op \in {"encrypt", "decrypt"} =>
          /\ outcome'.result = "RuntimeError"
          /\ cipher' = None]_vars

\* C15 amended: before initialize has been called, every encrypt and every
\* decrypt call on a non-empty string fails with the "not ready" error, a call
\* on the empty string returns the empty string, and either way the service
\* stays uninitialized.
C15_NonEmptyFailBeforeInitialize ==
    [][cipher = None /\ outcome'.op \in {"encrypt", "decrypt"} =>
          /\ cipher' = None
          /\ ~outcome'.used
          /\ IF outcome'.input = <<>>
             THEN outcome'.result = "ok" /\ outcome'.value = <<>>
             ELSE outcome'.result = "RuntimeError"]_vars

\* the uninitialized service has just refused to decrypt a token
C15_Witness ==
    /\ cipher = None
    /\ outcome.op = "decrypt"
    /\ outcome.input # <<>>
    /\ outcome.result = "RuntimeError"

\* C16 (as claimed): the encryption service moves only from Uninitialized to
\* Ready(key): once Ready it is never Uninitialized again and its key never
\* changes, whatever is called later in the same process.
C16_KeyNeverChanges ==
    [][cipher # None => cipher' = cipher]_vars

\* C17: with the service Ready, decrypting what encrypt returned for a string
\* gives the string back: encrypt(s) is a token of the service's key which
\* decrypt maps to s; and for the empty string both encrypt and decrypt return
\* the empty string without invoking the cipher.
C17_RoundTrip ==
    [][cipher # None =>
          /\ (outcome'.op = "round_trip" =>
                 /\ outcome'.result = "ok"
                 /\ outcome'.value = outcome'.input
                 /\ (outcome'.input = <<>> => ~outcome'.used))
          /\ (outcome'.op = "encrypt" =>
                 /\ outcome'.result = "ok"
                 /\ IF outcome'.input = <<>>
                    THEN outcome'.value = <<>> /\ ~outcome'.used
                    ELSE /\ outcome'.value \in Ciphertexts \ {<<>>}
                         /\ outcome'.value[1].key = cipher
                         /\ outcome'.value[1].plain = outcome'.input)
          /\ (outcome'.op = "decrypt" =>
                 IF outcome'.input = <<>>
                 THEN outcome'.result = "ok" /\ outcome'.value = <<>> /\ ~outcome'.used
                 ELSE outcome'.input[1].key = cipher =>
                         /\ outcome'.result = "ok"
                         /\ outcome'.value = outcome'.input[1].plain)]_vars

\* the Ready service has just encrypted and decrypted a string with a capital
\* and a blank
C17_Witness ==
    /\ cipher = "ekB"
    /\ outcome.op = "round_trip"
    /\ outcome.input = <<"A", " ">>
    /\ outcome.result = "ok"
    /\ outcome.used

\* the normalized form of an input: lower-cased and trimmed (None has none)
C18_Normalized(x) == strip(lower(x))

\* C18 (as claimed): for a fixed salt, two strings that differ only in letter
\* case and surrounding whitespace have the same fingerprint, and two strings
\* whose normalized forms differ have different fingerprints.
C18_SameIffSameNormalized ==
    outcome.op = "blind_index" /\ outcome.a # PyNone /\ outcome.b # PyNone =>
        (outcome.index_a = outcome.index_b <=>
            C18_Normalized(outcome.a) = C18_Normalized(outcome.b))

\* C19 (as claimed): the fingerprint of the empty string and of None is the
\* empty sentinel, every input whose normalized form is empty yields the
\* sentinel, and no input with a non-empty normalized form yields it.
C19_SentinelIffEmptyNormalized ==
    outcome.op = "blind_index" =>
        (outcome.index_a = <<>> <=>
            outcome.a = PyNone \/ C18_Normalized(outcome.a) = <<>>)

\* C20 (as claimed): in every reachable state every record's stored blind index
\* is the fingerprint of the current plaintext of its email column, that is of
\* what the service decrypts the stored ciphertext to, under the salt in force.
C20_IndexMatchesEmail ==
    \A m \in DOMAIN pii :
        LET plain == service_decrypt(cipher, pii[m].email)
        IN  /\ plain.status = "ok"
            /\ pii[m].email_blind_index =
                   generate_blind_index(plain.value, settings.EMAIL_BLIND_INDEX_SALT)

\* the record whose email has the same normalized form as e, if there is one
C21_Duplicate(e) ==
    \E m \in DOMAIN pii :
        C18_Normalized(pii[m].email[1].plain) = C18_Normalized(e)

\* C21: a submission whose email has the normalized form (case-folded,
\* surrounding whitespace removed) of an existing record's email is rejected as
\* a conflict and creates no record; any other submission creates exactly one
\* new record, PENDING and with no assigned worker.
C21_DuplicateRejectedElseOneRecord ==
    [][\A p \in Serial :
         /\ (pc[p] = "submit_query" /\ pc'[p] # "submit_query" =>
                /\ members' = members /\ pii' = pii
                /\ IF C21_Duplicate(req[p].email)
                   THEN pc'[p] = "done" /\ result'[p] = Err("409")
                   ELSE pc'[p] = "submit_commit")
         /\ (pc[p] = "submit_commit" /\ pc'[p] # "submit_commit" =>
                /\ ~C21_Duplicate(req[p].email)
                /\ \E m \in MemberIds \ DOMAIN members :
                     /\ result'[p] = Ok(m)
                     /\ DOMAIN members' = DOMAIN members \cup {m}
                     /\ DOMAIN pii' = DOMAIN pii \cup {m}
                     /\ members'[m].status = PENDING
                     /\ members'[m].assigned_vetter_id = None
                     /\ pii'[m].email[1].plain = req[p].email
                     /\ \A k \in DOMAIN members : members'[k] = members[k]
                     /\ \A k \in DOMAIN pii : pii'[k] = pii[k])]_vars

\* a submission was turned away as the duplicate of "a ", the only record stored
C21_Witness ==
    /\ DOMAIN members = {1}
    /\ members[1].status = PENDING
    /\ pii[1].email[1].plain = <<"a", " ">>
    /\ \E p \in Serial : pc[p] = "done" /\ result[p] = Err("409")

\* C22: the audit ledger is append-only: a step either keeps every entry it
\* found (adding to them or not), or it is the permanent deletion of a record,
\* which removes exactly the entries whose subject is that record and leaves
\* the entries with another subject or with no subject as they were.
C22_Kept ==
    \A e \in BagToSet(audit_logs) : CopiesIn(e, audit_logs') >= CopiesIn(e, audit_logs)

C22_Cascade(m) ==
    /\ m \in DOMAIN members
    /\ m \notin DOMAIN members'
    /\ \A e \in BagToSet(audit_logs) \cup BagToSet(audit_logs') :
         CopiesIn(e, audit_logs') = IF e.member_id = m THEN 0 ELSE CopiesIn(e, audit_logs)

C22_AppendOnly ==
    [][C22_Kept \/ \E m \in MemberIds : C22_Cascade(m)]_vars

\* record 1 is gone with all its entries, while an entry without a subject and
\* record 2 are still there
C22_Witness ==
    /\ DOMAIN members = {2}
    /\ \A e \in BagToSet(audit_logs) : e.member_id # 1
    /\ \E e \in BagToSet(audit_logs) : e.member_id = NoMember
    /\ \E p \in Procs : pc[p] = "done" /\ result[p] = Ok(NoMember)

\* how many entries of the ledger have record m as their subject
C23_About(logs, m) ==
    BagCardinality([e \in {x \in DOMAIN logs : x.member_id = m} |-> logs[e]])

\* the step appends exactly one entry about m, and it is (u, m, a)
C23_OneEntry(u, m, a) ==
    /\ Entries(audit_logs', u, m, a) = Entries(audit_logs, u, m, a) + 1
    /\ C23_About(audit_logs', m) = C23_About(audit_logs, m) + 1

C24_Oldest(tbl) ==
    {m \in DOMAIN tbl :
        /\ tbl[m].status = PENDING
        /\ \A k \in DOMAIN tbl :
              tbl[k].status = PENDING => tbl[m].created_at <= tbl[k].created_at}

\* status and assigned worker of every record are what they were
C24_Untouched(S) ==
    /\ DOMAIN members' = DOMAIN members
    /\ \A m \in S :
          /\ members'[m].status = members[m].status
          /\ members'[m].assigned_vetter_id = members[m].assigned_vetter_id

\* C24: a successful login by a vetter runs auto-assign, so that when it ends an
\* oldest PENDING record, if there is one, is ASSIGNED to that vetter; a login
\* answered at once (a failed login, 401 or 403, or an administrator's) changes
\* no record's status or assigned worker, and only an administrator's successful
\* login is answered at once.
C24_LoginAssignsVetterOnly ==
    [][\A p \in Serial :
          /\ (pc[p] = "idle" /\ pc'[p] = "done") =>
                /\ C24_Untouched(DOMAIN members)
                /\ audit_logs' = audit_logs
                /\ result'[p].code \in {"401", "403", "ok"}
                /\ result'[p].code = "ok" => role(result'[p].value) = SUPER_ADMIN
          /\ (pc[p] = "idle" /\ pc'[p] \notin {"idle", "done"}) =>
                /\ req'[p].kind = "login"
                /\ role(req'[p].user) = VETTER
          /\ (req[p].kind = "login" /\ pc'[p] = "done") =>
                /\ result'[p] = Ok(req[p].user)
                /\ IF C24_Oldest(members) = {}
                   THEN C24_Untouched(DOMAIN members)
                   ELSE \E m \in C24_Oldest(members) :
                          /\ members'[m].status = ASSIGNED
                          /\ members'[m].assigned_vetter_id = req[p].user
                          /\ C24_Untouched(DOMAIN members \ {m})]_vars

\* a vetter's login has ended with the older of two applications assigned to
\* them and the younger still PENDING
C24_Witness ==
    \E p \in Serial, w \in Vetters, m, k \in DOMAIN members :
        /\ pc[p] = "done"
        /\ result[p] = Ok(w)
        /\ members[m].status = ASSIGNED
        /\ members[m].assigned_vetter_id = w
        /\ members[k].status = PENDING
        /\ members[m].created_at < members[k].created_at
        /\ Entries(audit_logs, w, m, "AUTO_ASSIGNED") = 1
\* ---- C25 --------------------------------------------------------------------------
C25_NonePending(tbl) == \A m \in DOMAIN tbl : tbl[m].status # PENDING

\* the AUTO_ASSIGNED entries of a ledger
C25_AutoAssigned(logs) ==
    [e \in Actors \X (MemberIds \cup {NoMember}) |->
        Entries(logs, e[1], e[2], "AUTO_ASSIGNED")]

\* C25: when auto-assign, reclamation done, finds no PENDING record, the
\* operation ends with the normal result "no candidate" (a 200 with no member, not
\* an error), the members table is left as it is, and the ledger holds the same
\* AUTO_ASSIGNED entries as when the operation began.
C25_NoCandidateIsNormal ==
    [][\A p \in Serial :
          (/\ pc[p] = "select"
           /\ pc'[p] \notin {"select", "idle"}
           /\ C25_NonePending(members)) =>
              /\ pc'[p] = "done"
              /\ result'[p] = Ok(NoMember)
              /\ members' = members
              /\ audit_logs' = audit_logs
              /\ snap[p].taken =>
                    C25_AutoAssigned(audit_logs') = C25_AutoAssigned(snap[p].audit)]_vars

\* a vetter asked for the next record while the only record was held, not
\* stale, and was answered "no candidate"
C25_Witness ==
    \E p \in Serial, m \in DOMAIN members :
        /\ pc[p] = "done"
        /\ result[p] = Ok(NoMember)
        /\ C25_NonePending(members)
        /\ members[m].status = ASSIGNED
        /\ \A u \in Actors : Entries(audit_logs, u, NoMember, "MANUAL_STALE_RECLAIM") = 0
        /\ \A u \in Actors, k \in MemberIds : Entries(audit_logs, u, k, "ASSIGNMENT_RECLAIMED") = 0
        /\ \E u \in Vetters : Entries(audit_logs, u, m, "AUTO_ASSIGNED") = 1
        /\ BagCardinality(audit_logs) = 1
        /\ now > members[m].updated_at
\* ---- C26 --------------------------------------------------------------------------
\* the step appends a STATUS_CHANGED entry about record m
C26_StatusUpdateOf(m) ==
    \E u \in Users :
        Entries(audit_logs', u, m, "STATUS_CHANGED")
            > Entries(audit_logs, u, m, "STATUS_CHANGED")

\* C26: the engine moves records along PENDING -> ASSIGNED and ASSIGNED ->
\* PENDING only: a record that is VETTED or REJECTED keeps its status and its
\* assigned worker in every step that is not a status update of that record,
\* whatever its age; no step of reclaim_stale or auto-assign touches it.
C26_TerminalForEngine ==
    [][\A m \in DOMAIN members :
          (members[m].status \in {VETTED, REJECTED} /\ ~C26_StatusUpdateOf(m)) =>
              /\ m \in DOMAIN members'
              /\ members'[m].status = members[m].status
              /\ members'[m].assigned_vetter_id = members[m].assigned_vetter_id]_vars
\* ---- C27 --------------------------------------------------------------------------
\* C27 (as claimed): whatever the interleaving of concurrent submissions, no two
\* stored records have the same non-empty blind index: of two simultaneous
\* submissions of the same normalized email at most one succeeds.
C27_NoSharedBlindIndex ==
    \A m, k \in DOMAIN pii :
        (m # k /\ pii[m].email_blind_index # <<>>) =>
            pii[m].email_blind_index # pii[k].email_blind_index
\* ---- C28 --------------------------------------------------------------------------
\* the process runs on a vault: the gate depends on it, or it has been opened
C28_VaultMode == vault_mode_enabled \/ unlocked

\* the service is Ready with the key of the opened vault and the settings hold
\* the vault's blind-index salt
C28_Ready ==
    /\ secrets \in Bundles
    /\ cipher = Content(secrets).ENCRYPTION_KEY
    /\ settings.EMAIL_BLIND_INDEX_SALT = Content(secrets).EMAIL_BLIND_INDEX_SALT

\* a request can be dispatched (no unlock handler is between unlocking the vault
\* and its return) and the gate lets /api/apply through
C28_Admitting ==
    /\ \A p \in Procs : pc[p] # "unlock_load"
    /\ ~vault_mode_enabled \/ unlocked

\* C28: in vault mode, whenever the lock gate admits an operation other than
\* unlock and health, the encryption service is Ready with the vault's key and
\* the vault's blind-index salt is loaded; no request is admitted between
\* is_unlocked becoming true and the initialization of the service: a request
\* that passes the gate in vault mode finds the service Ready.
C28_AdmittedMeansReady ==
    [][/\ (C28_VaultMode /\ C28_Admitting) => C28_Ready
       /\ (C28_VaultMode' /\ C28_Admitting') => C28_Ready'
       /\ \A p \in Serial :
            (/\ pc[p] = "idle"
             /\ pc'[p] = "done"
             /\ result'[p].code # "locked"
             /\ C28_VaultMode) => C28_Ready]_vars

\* an application was accepted after the vault was opened, and is stored under
\* the vault's key with the vault's salt in its blind index
C28_Witness ==
    /\ unlocked
    /\ sealed.password # None
    /\ C28_Ready
    /\ \E p \in Serial, m \in DOMAIN pii :
         /\ pc[p] = "done"
         /\ result[p] = Ok(m)
         /\ pii[m].email[1].key = Content(secrets).ENCRYPTION_KEY
         /\ pii[m].email_blind_index[Len(pii[m].email_blind_index)]
               = Content(secrets).EMAIL_BLIND_INDEX_SALT
    /\ \E p \in Procs \ Serial : pc[p] = "done" /\ result[p] = Redirect
\* ---- C29 --------------------------------------------------------------------------
\* record m is held by a worker and was last modified within the threshold
C29_Fresh(m) ==
    /\ members[m].status = ASSIGNED
    /\ members[m].updated_at >= now - STALE_ASSIGNMENT_DAYS

\* C29 (as claimed): auto-assign takes no work away from a worker who is not
\* stale: a record that is ASSIGNED and was last modified within the staleness
\* threshold keeps its status and its assigned worker in every step of every
\* auto-assign and reclaim_stale call, whichever worker makes it.
C29_FreshAssignmentKept ==
    [][\A m \in DOMAIN members :
          C29_Fresh(m) =>
              /\ m \in DOMAIN members'
              /\ members'[m].status = ASSIGNED
              /\ members'[m].assigned_vetter_id = members[m].assigned_vetter_id]_vars
\* ---- C30 --------------------------------------------------------------------------
\* no two records were created at the same instant
C30_NoTies ==
    \A m, k \in DOMAIN members : m # k => members[m].created_at # members[k].created_at

\* C30 (as claimed): no PENDING record is starved: while the vetters keep
\* invoking auto-assign and no status is set directly, every record that is
\* PENDING is eventually ASSIGNED (stated for the runs in which no two records
\* share a creation time, where oldest-first leaves no choice).
C30_NoStarvation ==
    ([]C30_NoTies) =>
        \A m \in MemberIds :
            (m \in DOMAIN members /\ members[m].status = PENDING)
                ~> (m \in DOMAIN members /\ members[m].status = ASSIGNED)
====
